---- MODULE Spec2Model ----
(***************************************************************************)
(* pin-lock: PinLock<T> wraps a std::sync::Mutex<T>; PinLock::lock takes   *)
(* Pin<&Self>, blocks on the mutex, unwraps the poison result and returns  *)
(* a PinLockGuard holding a Pin<MutexGuard<T>>.  The guard gives read      *)
(* access (deref) and pinned mutable access (as_mut); dropping it drops    *)
(* the MutexGuard, which unlocks the mutex (and poisons it when the thread *)
(* is panicking).                                                          *)
(***************************************************************************)
EXTENDS Integers, FiniteSets, TLC

\* ---------------------------------------------------------------- bounds
NThreads == 3
MaxVal == 1
Iterations == 2

Threads == 1 .. NThreads
Locks == {"A", "B"}
Values == 0 .. MaxVal
Addrs == {"p", "q"}

NoVal == 0 - 1
NoThread == 1 - 1
NoLock == "-"
NoAddr == "-"
NoView == [c |-> NoLock, v |-> NoVal, a |-> NoAddr]

\* ----------------------------------------------------------------- state
VARIABLES
  life,     \* life[c]: "none", "unpinned", "pinned", "dropped"
  inner,    \* inner[c]: the Mutex<T>: [locked, poisoned, data]
  addr,     \* addr[c]: the address of the contained value
  guard,    \* guard[c]: the threads owning a live PinLockGuard of c
  pc,       \* pc[t]: "run", "lock", "unwrap", "unwind", "dead", "done"
  want,     \* want[t]: the container whose lock call t is inside
  seen,     \* seen[t]: what t last observed through a guard
  prog,     \* prog[t]: position of the counter client in its loop body
  iters,    \* iters[t]: completed iterations of the counter client
  stored,   \* history: the last store into c, [v, t]; t = NoThread: by new
  crashed,  \* history: a holder panicked while its guard of c was live
  pinAddr   \* history: the address of the value when c was pinned

vars == <<life, inner, addr, guard, pc, want, seen, prog, iters,
          stored, crashed, pinAddr>>

client == <<prog, iters>>

NoMutex == [locked |-> FALSE, poisoned |-> FALSE, data |-> NoVal]
NoWrite == [v |-> NoVal, t |-> NoThread]

Held(t) == {c \in Locks : t \in guard[c]}

Init ==
  /\ life = [c \in Locks |-> "none"]
  /\ inner = [c \in Locks |-> NoMutex]
  /\ addr = [c \in Locks |-> NoAddr]
  /\ guard = [c \in Locks |-> {}]
  /\ pc = [t \in Threads |-> "run"]
  /\ want = [t \in Threads |-> NoLock]
  /\ seen = [t \in Threads |-> NoView]
  /\ prog = [t \in Threads |-> 0]
  /\ iters = [t \in Threads |-> 0]
  /\ stored = [c \in Locks |-> NoWrite]
  /\ crashed = [c \in Locks |-> FALSE]
  /\ pinAddr = [c \in Locks |-> NoAddr]

\* ------------------------------------------------- container life cycle
\* PinLock::new(value): PinLock { inner: Mutex::new(value) }
New(c, v, a) ==
  /\ life[c] = "none"
  /\ life' = [life EXCEPT ![c] = "unpinned"]
  /\ inner' = [inner EXCEPT ![c] = [locked |-> FALSE, poisoned |-> FALSE, data |-> v]]
  /\ addr' = [addr EXCEPT ![c] = a]
  /\ stored' = [stored EXCEPT ![c] = [v |-> v, t |-> NoThread]]
  /\ UNCHANGED <<guard, pc, want, seen, client, crashed, pinAddr>>

\* An unpinned PinLock is an ordinary value: the owner may move it.
Move(c, a) ==
  /\ life[c] = "unpinned"
  /\ a # addr[c]
  /\ addr' = [addr EXCEPT ![c] = a]
  /\ UNCHANGED <<life, inner, guard, pc, want, seen, client, stored,
                 crashed, pinAddr>>

\* The caller pins the container: from now on Pin<&PinLock<T>> exists.
PinIt(c) ==
  /\ life[c] = "unpinned"
  /\ life' = [life EXCEPT ![c] = "pinned"]
  /\ pinAddr' = [pinAddr EXCEPT ![c] = addr[c]]
  /\ UNCHANGED <<inner, addr, guard, pc, want, seen, client, stored,
                 crashed>>

\* The container is dropped, and the mutex and the value in it with it; the
\* borrow 'a of every guard and of every lock call in progress has ended.
DropLock(c) ==
  /\ life[c] = "pinned"
  /\ guard[c] = {}
  /\ \A t \in Threads : want[t] # c
  /\ life' = [life EXCEPT ![c] = "dropped"]
  /\ inner' = [inner EXCEPT ![c] = NoMutex]
  /\ addr' = [addr EXCEPT ![c] = NoAddr]
  /\ stored' = [stored EXCEPT ![c] = NoWrite]
  /\ crashed' = [crashed EXCEPT ![c] = FALSE]
  /\ pinAddr' = [pinAddr EXCEPT ![c] = NoAddr]
  /\ UNCHANGED <<guard, pc, want, seen, client>>

\* ------------------------------------------------------ the std Mutex
\* Faulty variant: lock never waits.
MutexAvailable_NoWait(t, c) == TRUE

\* Faulty variant: a recursive mutex, the owner may lock again.
MutexAvailable_Reentrant(t, c) == ~inner[c].locked \/ t \in guard[c]

\* Faulty variant: one process-wide mutex behind every container.
MutexAvailable_Global(t, c) == \A d \in Locks : ~inner[d].locked

\* Mutex::lock blocks while the mutex is locked, whoever holds it.
MutexAvailable(t, c) == ~inner[c].locked

\* Faulty variant: the poison error is recovered from (into_inner) instead of unwrapped.
IsPoisoned_Recovered(c) == FALSE

\* LockResult is Err(PoisonError) when the poison flag is set; unwrap panics.
IsPoisoned(c) == inner[c].poisoned

\* Faulty variant: the value is reachable without a guard.
OwnsGuard_Anyone(t, c) == pc[t] = "run" /\ life[c] = "pinned"

\* deref(&self) and as_mut(&mut self) need the guard itself.
OwnsGuard(t, c) == t \in guard[c]

\* Faulty variant: every guard drop poisons, panicking or not.
Unlocked_AlwaysPoisons(m, panicking) ==
  [m EXCEPT !.locked = FALSE, !.poisoned = TRUE]

\* Faulty variant: dropping the guard leaves the mutex locked (a forgotten MutexGuard).
Unlocked_Leaked(m, panicking) ==
  [m EXCEPT !.poisoned = m.poisoned \/ panicking]

\* MutexGuard::drop: poison when the thread is panicking, then unlock.
Unlocked(m, panicking) ==
  [m EXCEPT !.locked = FALSE, !.poisoned = m.poisoned \/ panicking]

\* Faulty variant: the guard points at a copy of the value, moved out of the mutex.
ValueAddr_Moved(c) == IF addr[c] = "p" THEN "q" ELSE "p"

\* Pin<MutexGuard<T>>: the guard points at the value where it is.
ValueAddr(c) == addr[c]

\* Faulty variant: reading through the guard yields a default value.
Contents_Default(c) == 0

\* *self.inner: the value the MutexGuard dereferences to.
Contents(c) == inner[c].data

\* ------------------------------------------------------- PinLock::lock
\* lock(self: Pin<&Self>) is entered; the thread is now inside inner.lock().
lock_call(t, c) ==
  /\ pc[t] = "run"
  /\ life[c] = "pinned"
  /\ pc' = [pc EXCEPT ![t] = "lock"]
  /\ want' = [want EXCEPT ![t] = c]
  /\ UNCHANGED <<life, inner, addr, guard, seen, stored, crashed, pinAddr>>

\* inner.lock() obtains the mutex.  Ok(guard): unwrap, Pin::new_unchecked and
\* PinLockGuard { inner } return the guard.  Err(PoisonError(guard)): unwrap
\* is about to panic, the MutexGuard is alive inside the error.
lock_acquire(t, c) ==
  /\ pc[t] = "lock"
  /\ want[t] = c
  /\ MutexAvailable(t, c)
  /\ inner' = [inner EXCEPT ![c].locked = TRUE]
  /\ IF IsPoisoned(c)
       THEN /\ pc' = [pc EXCEPT ![t] = "unwrap"]
            /\ UNCHANGED <<guard, want>>
       ELSE /\ pc' = [pc EXCEPT ![t] = "run"]
            /\ want' = [want EXCEPT ![t] = NoLock]
            /\ guard' = [guard EXCEPT ![c] = @ \cup {t}]
  /\ UNCHANGED <<life, addr, seen, stored, crashed, pinAddr>>

\* unwrap() panics on Err: the thread starts unwinding, the PoisonError and
\* the MutexGuard in it are dropped, which unlocks the mutex.  Every guard
\* the thread still owns is now owned by a panicking thread.
unwrap_failed(t, c) ==
  /\ pc[t] = "unwrap"
  /\ want[t] = c
  /\ inner' = [inner EXCEPT ![c] = Unlocked(@, TRUE)]
  /\ pc' = [pc EXCEPT ![t] = "unwind"]
  /\ want' = [want EXCEPT ![t] = NoLock]
  /\ crashed' = [d \in Locks |-> crashed[d] \/ t \in guard[d]]
  /\ UNCHANGED <<life, addr, guard, seen, stored, pinAddr>>

\* ------------------------------------------------------- PinLockGuard
\* Faulty variant: reading takes the value out and leaves a default behind.
deref_taking(t, c) ==
  /\ pc[t] = "run"
  /\ OwnsGuard(t, c)
  /\ seen' = [seen EXCEPT ![t] = [c |-> c, v |-> Contents(c), a |-> ValueAddr(c)]]
  /\ inner' = [inner EXCEPT ![c].data = 0]
  /\ UNCHANGED <<life, addr, guard, pc, want, stored, crashed, pinAddr>>

\* Deref::deref(&self) -> &T: &self.inner
deref(t, c) ==
  /\ pc[t] = "run"
  /\ OwnsGuard(t, c)
  /\ seen' = [seen EXCEPT ![t] = [c |-> c, v |-> Contents(c), a |-> ValueAddr(c)]]
  /\ UNCHANGED <<life, inner, addr, guard, pc, want, stored, crashed, pinAddr>>

\* Faulty variant: the guard owns a copy of the value; the store never reaches the mutex.
as_mut_copy(t, c, v) ==
  /\ pc[t] = "run"
  /\ OwnsGuard(t, c)
  /\ seen' = [seen EXCEPT ![t] = [c |-> c, v |-> v, a |-> ValueAddr(c)]]
  /\ stored' = [stored EXCEPT ![c] = [v |-> v, t |-> t]]
  /\ UNCHANGED <<life, inner, addr, guard, pc, want, crashed, pinAddr>>

\* as_mut(&mut self) -> Pin<&mut T>, and a store through it (Pin::set).
as_mut(t, c, v) ==
  /\ pc[t] = "run"
  /\ OwnsGuard(t, c)
  /\ inner' = [inner EXCEPT ![c].data = v]
  /\ seen' = [seen EXCEPT ![t] = [c |-> c, v |-> v, a |-> ValueAddr(c)]]
  /\ stored' = [stored EXCEPT ![c] = [v |-> v, t |-> t]]
  /\ UNCHANGED <<life, addr, guard, pc, want, crashed, pinAddr>>

\* The guard leaves scope: its field inner, the MutexGuard, is dropped.
drop_guard(t, c) ==
  /\ pc[t] = "run"
  /\ t \in guard[c]
  /\ guard' = [guard EXCEPT ![c] = @ \ {t}]
  /\ inner' = [inner EXCEPT ![c] = Unlocked(@, FALSE)]
  /\ seen' = [seen EXCEPT ![t] = IF @.c = c THEN NoView ELSE @]
  /\ UNCHANGED <<life, addr, pc, want, stored, crashed, pinAddr>>

\* ------------------------------------------------- abnormal termination
\* The thread panics in its own code, with whatever guards it owns.
Panic(t) ==
  /\ pc[t] = "run"
  /\ pc' = [pc EXCEPT ![t] = "unwind"]
  /\ crashed' = [d \in Locks |-> crashed[d] \/ t \in guard[d]]
  /\ UNCHANGED <<life, inner, addr, guard, want, seen, client, stored, pinAddr>>

\* Unwinding drops a guard the thread owns: MutexGuard::drop poisons, unlocks.
UnwindDrop(t, c) ==
  /\ pc[t] = "unwind"
  /\ t \in guard[c]
  /\ guard' = [guard EXCEPT ![c] = @ \ {t}]
  /\ inner' = [inner EXCEPT ![c] = Unlocked(@, TRUE)]
  /\ seen' = [seen EXCEPT ![t] = IF @.c = c THEN NoView ELSE @]
  /\ UNCHANGED <<life, addr, pc, want, client, stored, crashed, pinAddr>>

\* Unwinding is over: the thread has terminated abnormally.
Die(t) ==
  /\ pc[t] = "unwind"
  /\ Held(t) = {}
  /\ pc' = [pc EXCEPT ![t] = "dead"]
  /\ UNCHANGED <<life, inner, addr, guard, want, seen, client, stored,
                 crashed, pinAddr>>

\* ------------------------------------------- any client of the interface
LockCall(t, c) == lock_call(t, c) /\ UNCHANGED client
LockAcquire(t, c) == lock_acquire(t, c) /\ UNCHANGED client
UnwrapFailed(t, c) == unwrap_failed(t, c) /\ UNCHANGED client
Deref(t, c) == deref(t, c) /\ UNCHANGED client
AsMut(t, c, v) == as_mut(t, c, v) /\ UNCHANGED client
DropGuard(t, c) == drop_guard(t, c) /\ UNCHANGED client

\* The interface used by the threads T on the containers L.
System(L, T) ==
  \/ \E c \in L, v \in Values, a \in Addrs : New(c, v, a)
  \/ \E c \in L, a \in Addrs : Move(c, a)
  \/ \E c \in L : PinIt(c)
  \/ \E c \in L : DropLock(c)
  \/ \E t \in T, c \in L : LockCall(t, c)
  \/ \E t \in T, c \in L : LockAcquire(t, c)
  \/ \E t \in T, c \in L : UnwrapFailed(t, c)
  \/ \E t \in T, c \in L : Deref(t, c)
  \/ \E t \in T, c \in L, v \in Values : AsMut(t, c, v)
  \/ \E t \in T, c \in L : DropGuard(t, c)
  \/ \E t \in T : Panic(t)
  \/ \E t \in T, c \in L : UnwindDrop(t, c)
  \/ \E t \in T : Die(t)

\* One container shared by all the threads.
Next == System({"A"}, Threads)

Spec == Init /\ [][Next]_vars

\* The mutex serves its waiters fairly: a thread inside lock(c) that could
\* take the mutex again and again does take it.
Fairness == \A t \in Threads : SF_vars(LockAcquire(t, "A"))

FairSpec == Spec /\ Fairness

\* The scheduler lets every thread go on: a lock call takes a mutex that
\* stays free, a panic raised by unwrap unwinds, unwinding drops the guards.
Progress ==
  \A t \in Threads :
    /\ WF_vars(LockAcquire(t, "A"))
    /\ WF_vars(UnwrapFailed(t, "A"))
    /\ WF_vars(UnwindDrop(t, "A"))

ProgressSpec == Spec /\ Progress

\* Two containers, two threads.
NextTwo == System(Locks, {1, 2})

SpecTwo == Init /\ [][NextTwo]_vars

\* ------------------------------------------------- the counter scenario
\* Container A holds the integer 0 and is pinned; every thread runs
\* Iterations times: lock, read the counter, store counter + 1, drop.
InitCounter ==
  /\ life = [c \in Locks |-> IF c = "A" THEN "pinned" ELSE "none"]
  /\ inner = [c \in Locks |-> IF c = "A" THEN [NoMutex EXCEPT !.data = 0] ELSE NoMutex]
  /\ addr = [c \in Locks |-> IF c = "A" THEN "p" ELSE NoAddr]
  /\ guard = [c \in Locks |-> {}]
  /\ pc = [t \in Threads |-> "run"]
  /\ want = [t \in Threads |-> NoLock]
  /\ seen = [t \in Threads |-> NoView]
  /\ prog = [t \in Threads |-> 0]
  /\ iters = [t \in Threads |-> 0]
  /\ stored = [c \in Locks |-> IF c = "A" THEN [v |-> 0, t |-> NoThread] ELSE NoWrite]
  /\ crashed = [c \in Locks |-> FALSE]
  /\ pinAddr = [c \in Locks |-> IF c = "A" THEN "p" ELSE NoAddr]

At(t, k) == prog[t] = k
Goto(t, k) == prog' = [prog EXCEPT ![t] = k]

CtrLock(t) ==
  /\ At(t, 0) /\ iters[t] < Iterations
  /\ lock_call(t, "A")
  /\ Goto(t, 1) /\ UNCHANGED iters

CtrAcquire(t) ==
  /\ At(t, 1)
  /\ lock_acquire(t, "A")
  /\ Goto(t, 2) /\ UNCHANGED iters

CtrRead(t) ==
  /\ At(t, 2)
  /\ deref(t, "A")
  /\ Goto(t, 3) /\ UNCHANGED iters

CtrWrite(t) ==
  /\ At(t, 3)
  /\ as_mut(t, "A", seen[t].v + 1)
  /\ Goto(t, 4) /\ UNCHANGED iters

CtrDrop(t) ==
  /\ At(t, 4)
  /\ drop_guard(t, "A")
  /\ Goto(t, 0)
  /\ iters' = [iters EXCEPT ![t] = @ + 1]

CtrFinish(t) ==
  /\ At(t, 0) /\ iters[t] = Iterations
  /\ pc[t] = "run"
  /\ pc' = [pc EXCEPT ![t] = "done"]
  /\ UNCHANGED <<life, inner, addr, guard, want, seen, client, stored, crashed, pinAddr>>

NextCounter ==
  \/ \E t \in Threads : CtrLock(t)
  \/ \E t \in Threads : CtrAcquire(t)
  \/ \E t \in Threads : CtrRead(t)
  \/ \E t \in Threads : CtrWrite(t)
  \/ \E t \in Threads : CtrDrop(t)
  \/ \E t \in Threads : CtrFinish(t)

CounterSpec == InitCounter /\ [][NextCounter]_vars

AllDone == \A t \in Threads : pc[t] = "done"

\* C2: no lost updates.  When every thread has finished its Iterations
\* rounds of lock, read, store counter + 1, drop, the counter of container A
\* equals NThreads * Iterations.
C2_NoLostUpdates ==
  AllDone => inner["A"].data = NThreads * Iterations

\* Reached: all threads are done, after NThreads * Iterations stores.
C2_Witness ==
  /\ AllDone
  /\ \A t \in Threads : iters[t] = Iterations
  /\ stored["A"].t # NoThread
  /\ inner["A"].data = NThreads * Iterations

\* ------------------------------------------------------------- claims
InLock(t, c) == pc[t] = "lock" /\ want[t] = c

\* C1: mutual exclusion.  At most one PinLockGuard of a container is live at
\* any instant, whatever the interleaving of lock calls and guard drops.
C1_MutualExclusion ==
  \A c \in Locks : Cardinality(guard[c]) <= 1

\* Reached: a guard of A is live while two other threads are inside lock(A).
C1_Witness ==
  \E t, u, w \in Threads :
    /\ t # u /\ u # w /\ t # w
    /\ t \in guard["A"]
    /\ InLock(u, "A") /\ InLock(w, "A")

\* C3: fail fast on contamination.  Once a thread has panicked while owning
\* the guard of c, no lock call on c returns a guard any more: a thread that
\* leaves inner.lock() holds the poison error and goes on to panic.
C3_FailFast ==
  [][\A c \in Locks : crashed[c] =>
       /\ guard'[c] \subseteq guard[c]
       /\ \A t \in Threads :
            /\ (InLock(t, c) /\ pc'[t] # "lock") => pc'[t] = "unwrap"
            /\ (pc[t] = "unwrap" /\ want[t] = c) => pc'[t] \in {"unwrap", "unwind"}]_vars

\* Reached: the holder of A died of a panic and another thread's lock(A) has
\* come back with the poison error.
C3_Witness ==
  \E t, u \in Threads :
    /\ t # u
    /\ crashed["A"] /\ pc[u] = "dead"
    /\ pc[t] = "unwrap" /\ want[t] = "A"
    /\ guard["A"] = {}

\* C4: release exactly at guard destruction.  A step that ends a guard of c
\* leaves the mutex of c unlocked, and a step that leaves the live guard in
\* place leaves the mutex locked.
C4_ReleaseAtDrop ==
  [][\A c \in Locks :
       /\ \A t \in Threads : (t \in guard[c] /\ t \notin guard'[c]) => ~inner'[c].locked
       /\ (guard[c] # {} /\ guard'[c] = guard[c]) => inner'[c].locked]_vars

\* Reached: a thread wrote through its guard of A and dropped it normally,
\* and the mutex is free again.
C4_Witness ==
  /\ life["A"] = "pinned"
  /\ stored["A"].t # NoThread
  /\ guard["A"] = {} /\ ~inner["A"].locked
  /\ ~inner["A"].poisoned /\ ~crashed["A"]
  /\ \A t \in Threads : pc[t] = "run"

Views(c) == {t \in Threads : seen[t].c = c}

\* C5: construct, pin, lock, read.  While no store through as_mut has
\* happened, every read through a guard of c observes the value that was
\* passed to PinLock::new.
C5_ReadsInitial ==
  \A c \in Locks : \A t \in Views(c) :
    stored[c].t = NoThread => seen[t].v = stored[c].v

\* Reached: a guard holder has read the unmodified container A, which was
\* built with the largest value.
C5_Witness ==
  \E t \in Threads :
    /\ t \in guard["A"] /\ seen[t].c = "A"
    /\ stored["A"] = [v |-> MaxVal, t |-> NoThread]
    /\ seen[t].v = MaxVal

\* C6: mutation persistence.  After a store through as_mut the contained
\* value is the stored one, also once the guard is gone, and whoever reads
\* through a later guard observes it.
C6_MutationPersists ==
  \A c \in Locks : stored[c].t # NoThread =>
    /\ inner[c].data = stored[c].v
    /\ \A t \in Views(c) : seen[t].v = stored[c].v

\* Reached: a thread reads through its guard of A the value another thread
\* stored through an earlier guard.
C6_Witness ==
  \E t, u \in Threads :
    /\ t # u
    /\ stored["A"].t = u /\ u \notin guard["A"]
    /\ t \in guard["A"] /\ seen[t].c = "A"
    /\ seen[t].v = stored["A"].v /\ seen[t].v = MaxVal

\* C7: address stability.  The contained value of a pinned container stays
\* at the address it had when the container was pinned, and every reference
\* obtained through a guard points there.
C7_AddressStable ==
  \A c \in Locks :
    /\ life[c] = "pinned" => addr[c] = pinAddr[c]
    /\ \A t \in Views(c) : seen[t].a = pinAddr[c]

\* Reached: container A was moved before it was pinned; a second thread's
\* guard, after another thread's acquire/release cycle, sees the same address.
C7_Witness ==
  \E t, u \in Threads :
    /\ t # u
    /\ pinAddr["A"] = "q"
    /\ stored["A"].t = u /\ u \notin guard["A"]
    /\ t \in guard["A"] /\ seen[t].c = "A" /\ seen[t].a = "q"

Reentered(t, c) == InLock(t, c) /\ t \in guard[c]

\* C9: reentrant acquisition deadlocks.  A thread inside lock(c) that owns
\* a live guard of c stays inside lock(c) for ever and keeps that guard: it
\* never obtains a second guard and the first one is never released.
C9_ReentrantBlocks ==
  [][\A t \in Threads, c \in Locks : Reentered(t, c) => Reentered(t, c)']_vars

\* Reached: a thread called lock(A) while owning the guard of A.
C9_Witness ==
  \E t \in Threads : Reentered(t, "A") /\ inner["A"].locked

\* C10: only the guard holder mutates.  A step that changes the contained
\* value of a live container is a store by a running thread that owns the
\* live guard of that container.
C10_OnlyHolderMutates ==
  [][\A c \in Locks :
       (life[c] = "pinned" /\ life'[c] = "pinned" /\ inner'[c].data # inner[c].data) =>
         /\ stored'[c].t \in guard[c]
         /\ pc[stored'[c].t] = "run"
         /\ stored'[c].v = inner'[c].data]_vars

\* Reached: the last store into A was made by the thread that owns the
\* guard, while another thread waits in lock(A) and a third owns nothing.
C10_Witness ==
  \E t, u, w \in Threads :
    /\ t # u /\ u # w /\ t # w
    /\ stored["A"].t = t /\ t \in guard["A"]
    /\ inner["A"].data = stored["A"].v
    /\ InLock(u, "A")
    /\ pc[w] = "run" /\ Held(w) = {}

EveryHolderDrops(c) == \A u \in Threads : []<>(u \notin guard[c])

NeverPoisoned(c) == [](~inner[c].poisoned)

GrantedWhenFree ==
  [][\A t \in Threads, c \in Locks :
       (t \notin guard[c] /\ t \in guard'[c]) =>
         (InLock(t, c) /\ guard[c] = {} /\ ~inner[c].locked)]_vars

Failing(c) == {t \in Threads : pc[t] = "unwrap" /\ want[t] = c}

\* The state of container c as its users can tell it.
State(c) ==
  IF life[c] # "pinned" THEN life[c]
  ELSE IF ~inner[c].locked /\ guard[c] = {} /\ Failing(c) = {} THEN "unlocked"
  ELSE IF inner[c].locked /\ Cardinality(guard[c]) = 1 /\ Failing(c) = {} THEN "locked"
  ELSE IF inner[c].locked /\ guard[c] = {} /\ Cardinality(Failing(c)) = 1 /\ inner[c].poisoned
    THEN "failing"
  ELSE "other"

\* No lock call on c can return a guard any more.
Terminal(c) == life[c] = "dropped" \/ (life[c] = "pinned" /\ inner[c].poisoned)

\* C11 as stated: a container that was not destroyed is unlocked or locked
\* with its guard live, and is not terminal.
C11_TwoStatesOnly ==
  \A c \in Locks : life[c] = "pinned" =>
    (State(c) \in {"unlocked", "locked"} /\ ~Terminal(c))

\* C11, amended: a pinned container is unlocked, locked with its one guard
\* live, or (poisoned only) held by a lock call that is about to fail;
\* the transitions are acquire, guard destruction, and the failing lock
\* call's take and release of the mutex; a guard is never acquired in a
\* terminal state, and a container becomes terminal by its destruction or by
\* the guard drop of a holder that panicked.
C11_StateMachine ==
  [][\A c \in Locks :
       /\ State(c) # "other" /\ State(c)' # "other"
       /\ <<State(c), State(c)'>> \in
            { <<"none", "none">>, <<"none", "unpinned">>,
              <<"unpinned", "unpinned">>,
              <<"unpinned", "unlocked">>,
              <<"unlocked", "unlocked">>, <<"unlocked", "locked">>,
              <<"locked", "locked">>, <<"locked", "unlocked">>,
              <<"unlocked", "failing">>, <<"failing", "failing">>,
              <<"failing", "unlocked">>,
              <<"unlocked", "dropped">>, <<"dropped", "dropped">> }
       /\ (State(c) = "unlocked" /\ State(c)' = "locked") => ~Terminal(c)
       /\ (State(c) = "unlocked" /\ State(c)' = "failing") => Terminal(c)
       /\ (~Terminal(c) /\ Terminal(c)') =>
            \/ life'[c] = "dropped"
            \/ /\ crashed[c] /\ State(c) = "locked" /\ State(c)' = "unlocked"
               /\ \E t \in guard[c] : pc[t] = "unwind"]_vars

\* Reached: container A is pinned, unlocked and terminal: its holder
\* panicked, and a later lock call has failed and released the mutex.
C11_Witness ==
  /\ State("A") = "unlocked" /\ Terminal("A") /\ crashed["A"]
  /\ \E t, u \in Threads : t # u /\ pc[t] = "dead" /\ pc[u] = "unwind"

\* C12: contamination is the single error condition.  A lock call on c
\* fails (inner.lock() yields the poison error) exactly when a holder of c
\* panicked with its guard live, and returns a guard otherwise; the failed
\* call is not retried: the thread unwinds and ends.
C12_SingleErrorCondition ==
  [][\A t \in Threads :
       /\ \A c \in Locks :
            /\ (InLock(t, c) /\ pc'[t] = "unwrap") => (crashed[c] /\ inner[c].poisoned)
            /\ (InLock(t, c) /\ pc'[t] = "run") => (~crashed[c] /\ t \in guard'[c])
            /\ InLock(t, c) => pc'[t] \in {"lock", "unwrap", "run"}
       /\ pc[t] = "unwrap" => pc'[t] \in {"unwrap", "unwind"}
       /\ pc[t] = "unwind" => pc'[t] \in {"unwind", "dead"}
       /\ pc[t] = "dead" => pc'[t] = "dead"]_vars

\* Reached: after the holder of A died of a panic, one lock(A) call has
\* failed and its thread is unwinding, and another one is still waiting.
C12_Witness ==
  \E t, u, w \in Threads :
    /\ crashed["A"] /\ inner["A"].poisoned
    /\ pc[u] = "dead" /\ pc[t] = "unwind" /\ Held(t) = {}
    /\ InLock(w, "A")

\* C13: read access is free of side effects.  A deref through the guard of
\* c yields the contained value and leaves the value, the mutex (locked, by
\* the same guard), the poison flag and everything else of the containers
\* as they were.
C13_ReadOnly ==
  [][\A t \in Threads, c \in Locks : Deref(t, c) =>
       /\ seen'[t] = [c |-> c, v |-> inner[c].data, a |-> addr[c]]
       /\ inner' = inner /\ inner[c].locked
       /\ guard' = guard /\ t \in guard[c]
       /\ addr' = addr /\ life' = life /\ stored' = stored
       /\ \A u \in Threads \ {t} : seen'[u] = seen[u]]_vars

\* Reached: a holder has read the value another thread stored, while a
\* third thread waits inside lock(A); the mutex is locked and not poisoned.
C13_Witness ==
  \E t, u, w \in Threads :
    /\ t # u
    /\ t \in guard["A"] /\ stored["A"].t = u
    /\ seen[t] = [c |-> "A", v |-> inner["A"].data, a |-> addr["A"]]
    /\ inner["A"].locked /\ ~inner["A"].poisoned
    /\ InLock(w, "A") /\ w # t

\* What container c consists of: its life, mutex, value, address, guards.
Container(c) == <<life[c], inner[c], addr[c], guard[c]>>

\* C14: containers are independent.  A thread inside lock(d) can take the
\* mutex of d whenever that mutex is unlocked, whatever the state of the
\* other container; its call fails only on d's own poison flag; and no step
\* that changes one container (acquire, store, guard drop, contamination)
\* changes the value, lock state, poison flag or guards of the other.
C14_Independent ==
  [][\A d \in Locks :
       /\ \A t \in {1, 2} :
            /\ (InLock(t, d) /\ ~inner[d].locked) => ENABLED LockAcquire(t, d)
            /\ (InLock(t, d) /\ pc'[t] = "unwrap") => inner[d].poisoned
            /\ (InLock(t, d) /\ pc'[t] = "run") => ~inner[d].poisoned
       /\ \A c \in Locks \ {d} :
            Container(c)' # Container(c) => Container(d)' = Container(d)]_vars

\* Reached: thread 1 died of a panic with the guard of A live and A is
\* poisoned, while thread 2 has stored through its live guard of B, which
\* is locked and not poisoned.
C14_Witness ==
  /\ crashed["A"] /\ inner["A"].poisoned /\ pc[1] = "dead"
  /\ guard["B"] = {2} /\ stored["B"].t = 2 /\ pc[2] = "run"
  /\ inner["B"].locked /\ ~inner["B"].poisoned /\ ~crashed["B"]

\* Reached as well: thread 2 owns the guard of B and holds the poison error
\* of A; its panic and the drop of its guard will poison B.
C14_SharedHolder ==
  /\ pc[2] = "unwrap" /\ want[2] = "A"
  /\ 2 \in guard["B"] /\ ~inner["B"].poisoned

\* C15: contamination is permanent.  While the container lives, a set
\* poison flag stays set, and no guard of a poisoned container is live.
C15_PoisonPermanent ==
  /\ [](\A c \in Locks : inner[c].poisoned => guard[c] = {})
  /\ [][\A c \in Locks :
          (inner[c].poisoned /\ life'[c] = "pinned") => inner'[c].poisoned]_vars

\* Reached: A is still poisoned after its crashed holder and a first failed
\* lock call are over, and a second lock call is failing.
C15_Witness ==
  \E t, u, w \in Threads :
    /\ t # u
    /\ inner["A"].poisoned /\ life["A"] = "pinned"
    /\ pc[t] = "dead" /\ pc[u] = "dead"
    /\ pc[w] = "unwrap" /\ want[w] = "A"

\* C16 as stated: the mutex is locked exactly when a PinLockGuard is live.
C16_HeldIffGuardLive ==
  \A c \in Locks : inner[c].locked <=> guard[c] # {}

\* C16, amended: the mutex is locked exactly when a PinLockGuard is live or a
\* failing lock call still carries the MutexGuard inside the poison error;
\* a thread that has died, by its own panic or by a failed lock call, owns
\* neither, so it leaves no mutex locked.
C16_HeldIffOwned ==
  /\ \A c \in Locks : inner[c].locked <=> (guard[c] # {} \/ Failing(c) # {})
  /\ \A c \in Locks : Cardinality(guard[c]) + Cardinality(Failing(c)) <= 1
  /\ \A t \in Threads : pc[t] = "dead" => (Held(t) = {} /\ want[t] = NoLock)
  /\ (\A t \in Threads : pc[t] = "dead") => \A c \in Locks : ~inner[c].locked

\* Reached: the holder of A and two failed lock calls are over, every
\* thread is dead, and the poisoned mutex is unlocked.
C16_Witness ==
  /\ life["A"] = "pinned" /\ crashed["A"] /\ inner["A"].poisoned
  /\ ~inner["A"].locked /\ guard["A"] = {}
  /\ \A t \in Threads : pc[t] = "dead"

\* C17: nobody is stranded by contamination.  Once a holder of A has
\* panicked with its guard live, every thread inside lock(A), then or later,
\* ends its call by the panic of unwrap.
C17_NotStranded ==
  \A t \in Threads :
    (crashed["A"] /\ InLock(t, "A")) ~> (pc[t] \in {"unwind", "dead"})

\* Reached: the thread that stored into A died of its panic; of the two
\* lock(A) calls, one has failed and unwinds, the other holds the poison
\* error.
C17_Witness ==
  \E t, u, w \in Threads :
    /\ crashed["A"] /\ inner["A"].poisoned
    /\ pc[u] = "dead" /\ stored["A"].t = u
    /\ pc[t] = "unwind" /\ Held(t) = {}
    /\ pc[w] = "unwrap" /\ want[w] = "A"

====
